---- MODULE Spec2Model ----
(***************************************************************************)
(* A model of run_prof_mackson.py: the best-effort JSON extractor          *)
(* (_extract_json), the notifier (send_email) and the daily research cycle *)
(* (run_daily_research_cycle) driven on the module-level chat session.     *)
(*                                                                         *)
(* Text is a sequence of one-character strings.  The model's alphabet is   *)
(*   { } [ ] " : , / _ ` space newline, the digits, and letters;           *)
(* it has no backslash, sign, fraction or exponent characters, so the only *)
(* JSON numbers are unsigned integers and string literals have no escapes. *)
(* The article and its 4000-character snippet are texts of which only the  *)
(* length is kept.                                                         *)
(***************************************************************************)
EXTENDS Integers, Sequences, FiniteSets, TLC

(* ------------------------------------------------------------------ *)
(* Bounds                                                              *)
(* ------------------------------------------------------------------ *)
MaxLen == 4

MaxCycles == 2

(* ------------------------------------------------------------------ *)
(* Characters and small string helpers (str methods used by the code)  *)
(* ------------------------------------------------------------------ *)
QUOTE == "\""
TICK == "^"   \* stands for the backtick character, which a TLA+ string cannot hold
NL == "\n"

Digits == {"0", "1", "2", "3", "4", "5", "6", "7", "8", "9"}

\* str.strip() with no argument and json's whitespace agree on the alphabet
IsSpace(c) == c \in {" ", NL}

\* characters json.loads rejects inside a string literal (strict mode)
IsControl(c) == c = NL

StartsWith(s, p) == Len(s) >= Len(p) /\ SubSeq(s, 1, Len(p)) = p

EndsWith(s, p) == Len(s) >= Len(p) /\ SubSeq(s, Len(s) - Len(p) + 1, Len(s)) = p

RECURSIVE LStripSet(_, _)
LStripSet(s, cs) ==
    IF s # <<>> /\ Head(s) \in cs THEN LStripSet(Tail(s), cs) ELSE s

RECURSIVE RStripSet(_, _)
RStripSet(s, cs) ==
    IF s # <<>> /\ s[Len(s)] \in cs THEN RStripSet(SubSeq(s, 1, Len(s) - 1), cs) ELSE s

\* str.strip(): drop leading and trailing whitespace
Strip(s) == RStripSet(LStripSet(s, {" ", NL}), {" ", NL})

\* str.strip("`"): drop every leading and trailing backtick
StripTicks(s) == RStripSet(LStripSet(s, {TICK}), {TICK})

\* str.find(c): the first index of c (1-based), 0 when absent
RECURSIVE FindFrom(_, _, _)
FindFrom(s, c, i) ==
    IF i > Len(s) THEN 0
    ELSE IF s[i] = c THEN i
    ELSE FindFrom(s, c, i + 1)

Find(s, c) == FindFrom(s, c, 1)

(* ------------------------------------------------------------------ *)
(* json.loads on the model's alphabet                                  *)
(* ------------------------------------------------------------------ *)
\* A JSON value: k is its kind; n a number, s a string's characters,
\* items an array's elements, members an object's <<key, value>> pairs.
NoVal == [k |-> "none", n |-> 0, s |-> <<>>, items |-> <<>>, members |-> {}]

NumVal(x) == [NoVal EXCEPT !.k = "num", !.n = x]

StrVal(x) == [NoVal EXCEPT !.k = "str", !.s = x]

ArrVal(xs) == [NoVal EXCEPT !.k = "arr", !.items = xs]

ObjVal(ms) == [NoVal EXCEPT !.k = "obj", !.members = ms]

LitVal(kind) == [NoVal EXCEPT !.k = kind]

\* the result of one scanning step: the value and the index after it
Fail == [ok |-> FALSE, val |-> NoVal, end |-> 0]

Got(v, e) == [ok |-> TRUE, val |-> v, end |-> e]

RECURSIVE SkipWs(_, _)
SkipWs(s, i) ==
    IF i <= Len(s) /\ IsSpace(s[i]) THEN SkipWs(s, i + 1) ELSE i

At(s, i) == IF i >= 1 /\ i <= Len(s) THEN s[i] ELSE ""

\* s[idx:idx + len(w)] == w
Matches(s, i, w) == i + Len(w) - 1 <= Len(s) /\ SubSeq(s, i, i + Len(w) - 1) = w

DigitOf(c) ==
    CASE c = "0" -> 0 [] c = "1" -> 1 [] c = "2" -> 2 [] c = "3" -> 3
      [] c = "4" -> 4 [] c = "5" -> 5 [] c = "6" -> 6 [] c = "7" -> 7
      [] c = "8" -> 8 [] c = "9" -> 9

\* py_scanstring from the character after the opening quote
RECURSIVE ScanString(_, _, _)
ScanString(s, i, acc) ==
    IF i > Len(s) THEN Fail
    ELSE IF s[i] = QUOTE THEN Got(StrVal(acc), i + 1)
    ELSE IF IsControl(s[i]) THEN Fail
    ELSE ScanString(s, i + 1, Append(acc, s[i]))

\* NUMBER_RE: 0 | [1-9][0-9]*  (the longest match at i)
RECURSIVE ScanDigits(_, _, _)
ScanDigits(s, i, acc) ==
    IF i <= Len(s) /\ s[i] \in Digits
    THEN ScanDigits(s, i + 1, acc * 10 + DigitOf(s[i]))
    ELSE Got(NumVal(acc), i)

ScanNumber(s, i) ==
    IF s[i] = "0" THEN Got(NumVal(0), i + 1) ELSE ScanDigits(s, i, 0)

\* dict(pairs): a later pair with the same key replaces the earlier one
PutMember(ms, key, v) == {m \in ms : m[1] # key} \cup {<<key, v>>}

RECURSIVE ScanOnce(_, _)
RECURSIVE ScanMembers(_, _, _)
RECURSIVE ScanItems(_, _, _)

\* JSONObject's loop; s[i] is the quote opening the next key
ScanMembers(s, i, ms) ==
    LET key == ScanString(s, i + 1, <<>>) IN
    IF ~key.ok THEN Fail
    ELSE
      LET colon == SkipWs(s, key.end) IN
      IF At(s, colon) # ":" THEN Fail
      ELSE
        LET v == ScanOnce(s, SkipWs(s, colon + 1)) IN
        IF ~v.ok THEN Fail
        ELSE
          LET nxt == SkipWs(s, v.end)
              ms2 == PutMember(ms, key.val.s, v.val)
          IN
          IF At(s, nxt) = "}" THEN Got(ObjVal(ms2), nxt + 1)
          ELSE IF At(s, nxt) # "," THEN Fail
          ELSE
            LET q == SkipWs(s, nxt + 1) IN
            IF At(s, q) # QUOTE THEN Fail ELSE ScanMembers(s, q, ms2)

\* JSONArray's loop; i is where the next element starts
ScanItems(s, i, xs) ==
    LET v == ScanOnce(s, i) IN
    IF ~v.ok THEN Fail
    ELSE
      LET nxt == SkipWs(s, v.end) IN
      IF At(s, nxt) = "]" THEN Got(ArrVal(Append(xs, v.val)), nxt + 1)
      ELSE IF At(s, nxt) # "," THEN Fail
      ELSE ScanItems(s, SkipWs(s, nxt + 1), Append(xs, v.val))

\* scanner.py_make_scanner._scan_once
ScanOnce(s, i) ==
    LET c == At(s, i) IN
    IF c = "" THEN Fail
    ELSE IF c = QUOTE THEN ScanString(s, i + 1, <<>>)
    ELSE IF c = "{" THEN
      LET j == SkipWs(s, i + 1) IN
      IF At(s, j) = "}" THEN Got(ObjVal({}), j + 1)
      ELSE IF At(s, j) # QUOTE THEN Fail
      ELSE ScanMembers(s, j, {})
    ELSE IF c = "[" THEN
      LET j == SkipWs(s, i + 1) IN
      IF At(s, j) = "]" THEN Got(ArrVal(<<>>), j + 1)
      ELSE ScanItems(s, j, <<>>)
    ELSE IF Matches(s, i, <<"n", "u", "l", "l">>) THEN Got(LitVal("null"), i + 4)
    ELSE IF Matches(s, i, <<"t", "r", "u", "e">>) THEN Got(LitVal("true"), i + 4)
    ELSE IF Matches(s, i, <<"f", "a", "l", "s", "e">>) THEN Got(LitVal("false"), i + 5)
    ELSE IF c \in Digits THEN ScanNumber(s, i)
    ELSE Fail

\* json.loads(s): one value with optional whitespace around it, nothing else
json_loads(s) ==
    LET r == ScanOnce(s, SkipWs(s, 1)) IN
    IF r.ok /\ SkipWs(s, r.end) = Len(s) + 1 THEN r ELSE Fail

(* ------------------------------------------------------------------ *)
(* _extract_json                                                       *)
(* ------------------------------------------------------------------ *)
FENCE == <<TICK, TICK, TICK>>

JSONTAG == <<"j", "s", "o", "n">>

\* the outcome of _extract_json: a returned value (and the strategy that
\* produced it) or one of its two ValueErrors
Returned(v, how) == [status |-> "ok", val |-> v, via |-> how]

Raised(msg) == [status |-> msg, val |-> NoVal, via |-> "none"]

NoResult == [status |-> "pending", val |-> NoVal, via |-> "none"]

\* Cleaned without lines 61-62: the language tag stays in the text
CleanedKeepsTag(text) ==
    LET c0 == Strip(text) IN
    IF StartsWith(c0, FENCE) /\ EndsWith(c0, FENCE) THEN Strip(StripTicks(c0)) ELSE c0

\* lines 57-62: trim, drop a surrounding fence, drop a leading json tag
Cleaned(text) ==
    LET c0 == Strip(text) IN
    IF StartsWith(c0, FENCE) /\ EndsWith(c0, FENCE)
    THEN LET c1 == Strip(StripTicks(c0)) IN
         IF StartsWith(c1, JSONTAG) THEN Strip(SubSeq(c1, 5, Len(c1))) ELSE c1
    ELSE c0

\* ScanBraces with candidate = cleaned[start_idx:idx], one character short
RECURSIVE ScanBracesShort(_, _, _, _)
ScanBracesShort(cleaned, start_idx, idx, depth) ==
    IF idx > Len(cleaned) THEN Raised("Unable to parse JSON from response text.")
    ELSE IF cleaned[idx] = "{" THEN ScanBracesShort(cleaned, start_idx, idx + 1, depth + 1)
    ELSE IF cleaned[idx] = "}" THEN
      IF depth - 1 = 0 THEN
        LET candidate == json_loads(SubSeq(cleaned, start_idx, idx - 1)) IN
        IF candidate.ok THEN Returned(candidate.val, "scan")
        ELSE Raised("Unable to parse JSON from response text.")
      ELSE ScanBracesShort(cleaned, start_idx, idx + 1, depth - 1)
    ELSE ScanBracesShort(cleaned, start_idx, idx + 1, depth)

\* ScanBraces with continue in place of break: after a candidate that does
\* not parse, the scan goes on to the next balanced span
RECURSIVE ScanBracesRetry(_, _, _, _)
ScanBracesRetry(cleaned, start_idx, idx, depth) ==
    IF idx > Len(cleaned) THEN Raised("Unable to parse JSON from response text.")
    ELSE IF cleaned[idx] = "{"
      THEN ScanBracesRetry(cleaned, IF depth = 0 THEN idx ELSE start_idx, idx + 1, depth + 1)
    ELSE IF cleaned[idx] = "}" THEN
      IF depth - 1 = 0 THEN
        LET candidate == json_loads(SubSeq(cleaned, start_idx, idx)) IN
        IF candidate.ok THEN Returned(candidate.val, "scan")
        ELSE ScanBracesRetry(cleaned, start_idx, idx + 1, 0)
      ELSE ScanBracesRetry(cleaned, start_idx, idx + 1, IF depth = 0 THEN 0 ELSE depth - 1)
    ELSE ScanBracesRetry(cleaned, start_idx, idx + 1, depth)

\* lines 75-89: the loop over idx with its depth counter
RECURSIVE ScanBraces(_, _, _, _)
ScanBraces(cleaned, start_idx, idx, depth) ==
    IF idx > Len(cleaned) THEN Raised("Unable to parse JSON from response text.")
    ELSE IF cleaned[idx] = "{" THEN ScanBraces(cleaned, start_idx, idx + 1, depth + 1)
    ELSE IF cleaned[idx] = "}" THEN
      IF depth - 1 = 0 THEN
        LET candidate == json_loads(SubSeq(cleaned, start_idx, idx)) IN
        IF candidate.ok THEN Returned(candidate.val, "scan")
        ELSE Raised("Unable to parse JSON from response text.")
      ELSE ScanBraces(cleaned, start_idx, idx + 1, depth - 1)
    ELSE ScanBraces(cleaned, start_idx, idx + 1, depth)

\* _extract_json without the start_idx == -1 test of lines 72-73
extract_json_no_find_test(text) ==
    LET cleaned == Cleaned(text)
        direct == json_loads(cleaned)
        start_idx == Find(cleaned, "{")
    IN
    IF direct.ok THEN Returned(direct.val, "direct")
    ELSE ScanBraces(cleaned, IF start_idx = 0 THEN 1 ELSE start_idx,
                    IF start_idx = 0 THEN 1 ELSE start_idx, 0)

\* lines 50-89
extract_json(text) ==
    LET cleaned == Cleaned(text)
        direct == json_loads(cleaned)
        start_idx == Find(cleaned, "{")
    IN
    IF direct.ok THEN Returned(direct.val, "direct")
    ELSE IF start_idx = 0 THEN Raised("No JSON object found in response.")
    ELSE ScanBraces(cleaned, start_idx, start_idx, 0)

(* ------------------------------------------------------------------ *)
(* Program constants and the texts the model draws from                *)
(* ------------------------------------------------------------------ *)
\* article_text[:4000]
SnippetLen == 4000

k_title == <<"t", "i", "t", "l", "e">>

k_abstract == <<"a", "b", "s", "t", "r", "a", "c", "t">>

k_email_subject == <<"e", "m", "a", "i", "l", "_", "s", "u", "b", "j", "e", "c", "t">>

k_email_body == <<"e", "m", "a", "i", "l", "_", "b", "o", "d", "y">>

\* f"Research Article Complete: {title}" without the title
DefaultSubjectPrefix ==
    <<"R", "e", "s", "e", "a", "r", "c", "h", " ", "A", "r", "t", "i", "c", "l", "e", " ",
      "C", "o", "m", "p", "l", "e", "t", "e", ":", " ">>

TopicFull ==
    <<"{", QUOTE, "t", "i", "t", "l", "e", QUOTE, ":", QUOTE, "T", QUOTE, ",",
      QUOTE, "a", "b", "s", "t", "r", "a", "c", "t", QUOTE, ":", QUOTE, "A", QUOTE, "}">>

TopicFenced ==
    <<TICK, TICK, TICK, "j", "s", "o", "n", NL,
      "{", QUOTE, "t", "i", "t", "l", "e", QUOTE, ":", QUOTE, "A", "/", "B", " ", "c", QUOTE, ",",
      QUOTE, "a", "b", "s", "t", "r", "a", "c", "t", QUOTE, ":", QUOTE, "A", QUOTE, "}",
      NL, TICK, TICK, TICK>>

TopicNoTitle ==
    <<"{", QUOTE, "a", "b", "s", "t", "r", "a", "c", "t", QUOTE, ":", QUOTE, "A", QUOTE, "}">>

TopicNoAbstract ==
    <<"{", QUOTE, "t", "i", "t", "l", "e", QUOTE, ":", QUOTE, "T", QUOTE, "}">>

TopicNumTitle ==
    <<"{", QUOTE, "t", "i", "t", "l", "e", QUOTE, ":", "1", ",",
      QUOTE, "a", "b", "s", "t", "r", "a", "c", "t", QUOTE, ":", QUOTE, "A", QUOTE, "}">>

EmailFenced ==
    <<TICK, TICK, TICK, "j", "s", "o", "n", NL,
      "{", QUOTE, "e", "m", "a", "i", "l", "_", "s", "u", "b", "j", "e", "c", "t", QUOTE, ":",
      QUOTE, "S", QUOTE, ",",
      QUOTE, "e", "m", "a", "i", "l", "_", "b", "o", "d", "y", QUOTE, ":", QUOTE, "B", QUOTE, "}",
      NL, TICK, TICK, TICK>>

EmailSubjectOnly ==
    <<"{", QUOTE, "e", "m", "a", "i", "l", "_", "s", "u", "b", "j", "e", "c", "t", QUOTE, ":",
      QUOTE, "S", QUOTE, "}">>

EmailBodyOnly ==
    <<"{", QUOTE, "e", "m", "a", "i", "l", "_", "b", "o", "d", "y", QUOTE, ":", QUOTE, "B", QUOTE, "}">>

EmailNumBody ==
    <<"{", QUOTE, "e", "m", "a", "i", "l", "_", "s", "u", "b", "j", "e", "c", "t", QUOTE, ":",
      QUOTE, "S", QUOTE, ",",
      QUOTE, "e", "m", "a", "i", "l", "_", "b", "o", "d", "y", QUOTE, ":", "1", "}">>

\* what the model service may answer to directive 1 (response_1.text)
Replies1 ==
    {TopicFull, TopicFenced, TopicNoTitle, TopicNoAbstract, TopicNumTitle,
     <<"[", "1", "]">>, <<"x">>, <<"{">>}

\* what it may answer to directive 2 (the outline, taken raw)
Replies2 == {<<"O", "U", "T", "L", "I", "N", "E">>}

\* the lengths of what it may answer to directive 3 (the article, taken raw;
\* an article is represented by its length, a prefix of it by a shorter one)
Replies3 == {1, SnippetLen, SnippetLen + 1}

\* what it may answer to directive 4 (response_4.text)
Replies4 ==
    {EmailFenced, EmailSubjectOnly, EmailBodyOnly, EmailNumBody,
     <<"{", "}">>, <<"[", "1", "]">>, <<"x">>}

\* _extract_json on each text the model service may answer with
extracted == [r \in Replies1 \cup Replies4 |-> extract_json(r)]

\* master_prompt_data: for each directive, whether its command is present and
\* whether str.format accepts it with the keywords the cycle passes
Configs ==
    {[d \in 1..4 |-> "ok"]}
    \cup {[d \in 1..4 |-> IF d = m THEN "missing" ELSE "ok"] : m \in 1..4}
    \cup {[d \in 1..4 |-> IF d = m THEN "badtemplate" ELSE "ok"] : m \in 2..4}

(* ------------------------------------------------------------------ *)
(* State                                                               *)
(* ------------------------------------------------------------------ *)
VARIABLES
    pre, core, post,  \* the text handed to _extract_json, in three parts
    result,           \* what _extract_json did with it
    cfg,              \* master_prompt_data (line 29)
    history,          \* the history of the module-level chat session (line 44)
    files,            \* OUTPUT_FOLDER: file name -> length of its content
    today,            \* datetime.now()'s date
    pc,               \* where run_daily_research_cycle stands
    cycle,            \* how many cycles have been started
    reply_text,       \* response_1.text / response_4.text
    topic_data, title, abstract, outline, article_text, email_data,
    filepath,         \* the path the article went to (<<>> before the save)
    requests,         \* this cycle's chat.send_message calls
    writes,           \* this cycle's open(filepath, "w") calls that opened
    emails,           \* this cycle's send_email calls
    smtp,             \* how far this cycle's SMTP dialogue got
    log,              \* this cycle's print lines
    error,            \* the exception in flight or last caught
    propagated        \* an exception left run_daily_research_cycle

xvars == <<pre, core, post, result>>

locals == <<reply_text, topic_data, title, abstract, outline, article_text, email_data, filepath>>

cvars == <<cfg, history, files, today, pc, cycle, locals, requests, writes, emails, smtp,
           log, error, propagated>>

vars == <<xvars, cvars>>

text == pre \o core \o post

\* one message of the chat history, named by who wrote it and the cycle and
\* directive it belongs to (its text is what the cycle's locals held then)
Msg(role, c, d) == [role |-> role, cycle |-> c, dir |-> d]

\* line 38: the system instruction holding json.dumps(master_prompt_data)
system_instruction == Msg("system", 0, 0)

NoError == [kind |-> "none", at |-> "none"]

\* module import (lines 28-47) and no cycle running
CycleInit ==
    /\ history = <<system_instruction>>
    /\ files = <<>>
    /\ today = 1
    /\ pc = "idle"
    /\ cycle = 0
    /\ reply_text = <<>>
    /\ topic_data = NoVal
    /\ title = NoVal
    /\ abstract = NoVal
    /\ outline = <<>>
    /\ article_text = 0
    /\ email_data = NoVal
    /\ filepath = <<>>
    /\ requests = <<>>
    /\ writes = 0
    /\ emails = <<>>
    /\ smtp = "none"
    /\ log = <<>>
    /\ error = NoError
    /\ propagated = FALSE

Init ==
    /\ pre = <<>> /\ core = <<>> /\ post = <<>>
    /\ result = NoResult
    /\ cfg \in Configs
    /\ CycleInit

(* ------------------------------------------------------------------ *)
(* run_daily_research_cycle                                            *)
(* ------------------------------------------------------------------ *)
\* InTry with the call of send_email placed after the try block
InTryWithoutSendEmail(p) ==
    p \in {"step1_send", "step1_parse", "step2_send", "step3_send", "save",
           "step4_send", "step4_parse", "call_send_email"}

\* the statements inside the try block of lines 118-162, send_email's
\* body included (it runs inside the call of line 159)
InTry(p) ==
    p \in {"step1_send", "step1_parse", "step2_send", "step3_send", "save",
           "step4_send", "step4_parse", "call_send_email", "email_compose",
           "smtp_connect", "smtp_starttls", "smtp_login", "smtp_send", "complete"}

\* an exception of class Exception raised at pc
Raise(kind) ==
    /\ error' = [kind |-> kind, at |-> pc]
    /\ IF InTry(pc)
       THEN pc' = "handler" /\ propagated' = propagated
       ELSE pc' = "idle" /\ propagated' = TRUE

\* dict lookup helpers on a parsed object
HasKey(v, key) == \E m \in v.members : m[1] = key

Lookup(v, key) == (CHOOSE m \in v.members : m[1] = key)[2]

\* dict.get(key, default)
Get(v, key, default) == IF HasKey(v, key) THEN Lookup(v, key) ELSE default

Min(a, b) == IF a <= b THEN a ELSE b

\* StartCycle with a chat session created anew for the cycle
StartCycleFreshSession ==
    /\ pc = "idle"
    /\ cycle < MaxCycles
    /\ cycle' = cycle + 1
    /\ today' \in {today, today + 1}
    /\ today' <= cycle'
    /\ pc' = "step1_send"
    /\ history' = <<system_instruction>>
    /\ reply_text' = <<>>
    /\ topic_data' = NoVal
    /\ title' = NoVal
    /\ abstract' = NoVal
    /\ outline' = <<>>
    /\ article_text' = 0
    /\ email_data' = NoVal
    /\ filepath' = <<>>
    /\ requests' = <<>>
    /\ writes' = 0
    /\ emails' = <<>>
    /\ smtp' = "none"
    /\ log' = <<"Starting Daily Research Cycle">>
    /\ error' = NoError
    /\ UNCHANGED <<xvars, cfg, files, propagated>>

\* line 116 and the entry into the try block
StartCycle ==
    /\ pc = "idle"
    /\ cycle < MaxCycles
    /\ cycle' = cycle + 1
    /\ today' \in {today, today + 1}
    /\ today' <= cycle'
    /\ pc' = "step1_send"
    /\ reply_text' = <<>>
    /\ topic_data' = NoVal
    /\ title' = NoVal
    /\ abstract' = NoVal
    /\ outline' = <<>>
    /\ article_text' = 0
    /\ email_data' = NoVal
    /\ filepath' = <<>>
    /\ requests' = <<>>
    /\ writes' = 0
    /\ emails' = <<>>
    /\ smtp' = "none"
    /\ log' = <<"Starting Daily Research Cycle">>
    /\ error' = NoError
    /\ UNCHANGED <<xvars, cfg, history, files, propagated>>

\* chat.send_message(message): the request is recorded with the history it is
\* sent on and the length of the article text it carries; on success the
\* message and the reply join the history, on an error the history stays as
\* it was and the error reaches the caller
SendOk(d, size) ==
    /\ requests' = Append(requests, [dir |-> d, on |-> history, size |-> size])
    /\ history' = history \o <<Msg("user", cycle, d), Msg("model", cycle, d)>>

SendFails(d, size) ==
    /\ requests' = Append(requests, [dir |-> d, on |-> history, size |-> size])
    /\ history' = history
    /\ Raise("ChatError")

\* lines 120-123
Step1Send ==
    /\ pc = "step1_send"
    /\ \/ /\ cfg[1] = "missing"
          /\ Raise("KeyError")
          /\ UNCHANGED <<history, requests, locals>>
       \/ /\ cfg[1] # "missing"
          /\ SendFails(1, 0)
          /\ UNCHANGED locals
       \/ /\ cfg[1] # "missing"
          /\ \E r \in Replies1 :
               /\ SendOk(1, 0)
               /\ reply_text' = r
          /\ pc' = "step1_parse"
          /\ UNCHANGED <<topic_data, title, abstract, outline, article_text, email_data,
                         filepath, error, propagated>>
    /\ UNCHANGED <<xvars, cfg, files, today, cycle, writes, emails, smtp, log>>

\* Step1Parse reading the keys with topic_data.get: a missing key does not raise
Step1ParseLenient ==
    /\ pc = "step1_parse"
    /\ LET r == extracted[reply_text] IN
       IF r.status # "ok"
       THEN Raise("ValueError") /\ UNCHANGED <<topic_data, title, abstract, log>>
       ELSE
         /\ topic_data' = r.val
         /\ IF r.val.k # "obj"
            THEN Raise("AttributeError") /\ UNCHANGED <<title, abstract, log>>
            ELSE /\ title' = Get(r.val, k_title, LitVal("null"))
                 /\ abstract' = Get(r.val, k_abstract, LitVal("null"))
                 /\ log' = Append(log, "Generated Title")
                 /\ pc' = "step2_send"
                 /\ UNCHANGED <<error, propagated>>
    /\ UNCHANGED <<xvars, cfg, history, files, today, cycle, reply_text, outline,
                   article_text, email_data, filepath, requests, writes, emails, smtp>>

\* lines 124-127
Step1Parse ==
    /\ pc = "step1_parse"
    /\ LET r == extracted[reply_text] IN
       IF r.status # "ok"
       THEN Raise("ValueError") /\ UNCHANGED <<topic_data, title, abstract, log>>
       ELSE
         /\ topic_data' = r.val
         /\ IF r.val.k # "obj"
            THEN Raise("TypeError") /\ UNCHANGED <<title, abstract, log>>
            ELSE IF ~HasKey(r.val, k_title)
            THEN Raise("KeyError") /\ UNCHANGED <<title, abstract, log>>
            ELSE IF ~HasKey(r.val, k_abstract)
            THEN /\ title' = Lookup(r.val, k_title)
                 /\ Raise("KeyError")
                 /\ UNCHANGED <<abstract, log>>
            ELSE /\ title' = Lookup(r.val, k_title)
                 /\ abstract' = Lookup(r.val, k_abstract)
                 /\ log' = Append(log, "Generated Title")
                 /\ pc' = "step2_send"
                 /\ UNCHANGED <<error, propagated>>
    /\ UNCHANGED <<xvars, cfg, history, files, today, cycle, reply_text, outline,
                   article_text, email_data, filepath, requests, writes, emails, smtp>>

\* lines 130-134
Step2Send ==
    /\ pc = "step2_send"
    /\ \/ /\ cfg[2] # "ok"
          /\ Raise("KeyError")
          /\ UNCHANGED <<history, requests, outline, log>>
       \/ /\ cfg[2] = "ok"
          /\ SendFails(2, 0)
          /\ UNCHANGED <<outline, log>>
       \/ /\ cfg[2] = "ok"
          /\ \E r \in Replies2 :
               /\ SendOk(2, 0)
               /\ outline' = r
          /\ log' = Append(log, "Outline Generated")
          /\ pc' = "step3_send"
          /\ UNCHANGED <<error, propagated>>
    /\ UNCHANGED <<xvars, cfg, files, today, cycle, reply_text, topic_data, title, abstract,
                   article_text, email_data, filepath, writes, emails, smtp>>

\* lines 137-141
Step3Send ==
    /\ pc = "step3_send"
    /\ \/ /\ cfg[3] # "ok"
          /\ Raise("KeyError")
          /\ UNCHANGED <<history, requests, article_text, log>>
       \/ /\ cfg[3] = "ok"
          /\ SendFails(3, 0)
          /\ UNCHANGED <<article_text, log>>
       \/ /\ cfg[3] = "ok"
          /\ \E n \in Replies3 :
               /\ SendOk(3, 0)
               /\ article_text' = n
          /\ log' = Append(log, "Article Composition Complete")
          /\ pc' = "save"
          /\ UNCHANGED <<error, propagated>>
    /\ UNCHANGED <<xvars, cfg, files, today, cycle, reply_text, topic_data, title, abstract,
                   outline, email_data, filepath, writes, emails, smtp>>

Letters ==
    {"a", "b", "c", "d", "e", "f", "g", "h", "i", "j", "k", "l", "m", "n", "o", "p", "q",
     "r", "s", "t", "u", "v", "w", "x", "y", "z",
     "A", "B", "C", "D", "E", "F", "G", "H", "I", "J", "K", "L", "M", "N", "O", "P", "Q",
     "R", "S", "T", "U", "V", "W", "X", "Y", "Z"}

\* c.isalnum() or c in (" ", "_", "-")
Kept(c) == c \in Letters \cup Digits \cup {" ", "_", "-"}

\* line 144 and the replace of line 145
safe_title(t) ==
    LET kept == RStripSet(LStripSet(SelectSeq(t, Kept), {" "}), {" "})
    IN [i \in 1..Len(kept) |-> IF kept[i] = " " THEN "_" ELSE kept[i]]

WriteFile(name, content) ==
    [n \in DOMAIN files \cup {name} |-> IF n = name THEN content ELSE files[n]]

\* Save writing the snippet article_text[:4000] in place of article_text
SaveWritesSnippet ==
    /\ pc = "save"
    /\ IF title.k # "str"
       THEN /\ Raise("TypeError")
            /\ UNCHANGED <<files, filepath, writes, log>>
       ELSE LET name == <<today, safe_title(title.s)>> IN
            \/ /\ Raise("OSError")
               /\ UNCHANGED <<files, filepath, writes, log>>
            \/ /\ files' = WriteFile(name, 0)
               /\ writes' = writes + 1
               /\ Raise("OSError")
               /\ UNCHANGED <<filepath, log>>
            \/ /\ files' = WriteFile(name, Min(article_text, SnippetLen))
               /\ writes' = writes + 1
               /\ filepath' = name
               /\ log' = Append(log, "Article saved")
               /\ pc' = "step4_send"
               /\ UNCHANGED <<error, propagated>>
    /\ UNCHANGED <<xvars, cfg, history, today, cycle, reply_text, topic_data, title, abstract,
                   outline, article_text, email_data, requests, emails, smtp>>

\* lines 144-149: open(filepath, "w") truncates or creates the file, and the
\* write (flushed when the with block closes it) fills it
Save ==
    /\ pc = "save"
    /\ IF title.k # "str"
       THEN \* iterating a title that is not a string (the model's others are numbers)
            /\ Raise("TypeError")
            /\ UNCHANGED <<files, filepath, writes, log>>
       ELSE LET name == <<today, safe_title(title.s)>> IN
            \/ \* open fails
               /\ Raise("OSError")
               /\ UNCHANGED <<files, filepath, writes, log>>
            \/ \* the file is opened and the write or the close fails
               /\ files' = WriteFile(name, 0)
               /\ writes' = writes + 1
               /\ Raise("OSError")
               /\ UNCHANGED <<filepath, log>>
            \/ /\ files' = WriteFile(name, article_text)
               /\ writes' = writes + 1
               /\ filepath' = name
               /\ log' = Append(log, "Article saved")
               /\ pc' = "step4_send"
               /\ UNCHANGED <<error, propagated>>
    /\ UNCHANGED <<xvars, cfg, history, today, cycle, reply_text, topic_data, title, abstract,
                   outline, article_text, email_data, requests, emails, smtp>>

\* lines 152-155
Step4Send ==
    /\ pc = "step4_send"
    /\ \/ /\ cfg[4] # "ok"
          /\ Raise("KeyError")
          /\ UNCHANGED <<history, requests, reply_text>>
       \/ /\ cfg[4] = "ok"
          /\ SendFails(4, Min(article_text, SnippetLen))
          /\ UNCHANGED reply_text
       \/ /\ cfg[4] = "ok"
          /\ \E r \in Replies4 :
               /\ SendOk(4, Min(article_text, SnippetLen))
               /\ reply_text' = r
          /\ pc' = "step4_parse"
          /\ UNCHANGED <<error, propagated>>
    /\ UNCHANGED <<xvars, cfg, files, today, cycle, topic_data, title, abstract, outline,
                   article_text, email_data, filepath, writes, emails, smtp, log>>

\* line 156
Step4Parse ==
    /\ pc = "step4_parse"
    /\ LET r == extracted[reply_text] IN
       IF r.status # "ok"
       THEN Raise("ValueError") /\ UNCHANGED email_data
       ELSE /\ email_data' = r.val
            /\ pc' = "call_send_email"
            /\ UNCHANGED <<error, propagated>>
    /\ UNCHANGED <<xvars, cfg, history, files, today, cycle, reply_text, topic_data, title,
                   abstract, outline, article_text, filepath, requests, writes, emails,
                   smtp, log>>

\* CallSendEmail with one test for both keys: the reply's subject and body are
\* used only when both are there
CallSendEmailCoupled ==
    /\ pc = "call_send_email"
    /\ IF email_data.k # "obj"
       THEN Raise("AttributeError") /\ UNCHANGED emails
       ELSE /\ emails' = Append(emails,
                 IF HasKey(email_data, k_email_subject) /\ HasKey(email_data, k_email_body)
                 THEN [subject |-> Lookup(email_data, k_email_subject),
                       body |-> Lookup(email_data, k_email_body)]
                 ELSE [subject |-> StrVal(DefaultSubjectPrefix \o title.s),
                       body |-> abstract])
            /\ pc' = "email_compose"
            /\ UNCHANGED <<error, propagated>>
    /\ UNCHANGED <<xvars, cfg, history, files, today, cycle, locals, requests, writes,
                   smtp, log>>

\* lines 159-160: the two email_data.get calls, then the call of send_email
CallSendEmail ==
    /\ pc = "call_send_email"
    /\ IF email_data.k # "obj"
       THEN \* a list, string or number has no get
            Raise("AttributeError") /\ UNCHANGED emails
       ELSE /\ emails' = Append(emails,
                 [subject |-> Get(email_data, k_email_subject,
                                  StrVal(DefaultSubjectPrefix \o title.s)),
                  body |-> Get(email_data, k_email_body, abstract)])
            /\ pc' = "email_compose"
            /\ UNCHANGED <<error, propagated>>
    /\ UNCHANGED <<xvars, cfg, history, files, today, cycle, locals, requests, writes,
                   smtp, log>>

\* send_email, lines 94-102: body[:200], the Subject header and set_content
\* need strings; this part is outside send_email's own try
EmailCompose ==
    /\ pc = "email_compose"
    /\ log' = Append(log, "Sending Email")
    /\ LET msg == emails[Len(emails)] IN
       IF msg.subject.k = "str" /\ msg.body.k = "str"
       THEN /\ pc' = "smtp_connect"
            /\ UNCHANGED <<error, propagated>>
       ELSE Raise("TypeError")
    /\ UNCHANGED <<xvars, cfg, history, files, today, cycle, locals, requests, writes,
                   emails, smtp>>

\* SmtpStage without send_email's try: a failing stage raises to the caller
SmtpStageNoTry(at, ok_smtp, ok_pc, ok_log) ==
    /\ pc = at
    /\ \/ /\ smtp' = ok_smtp
          /\ pc' = ok_pc
          /\ log' = log \o ok_log
          /\ UNCHANGED <<error, propagated>>
       \/ /\ smtp' = "failed at " \o at
          /\ Raise("SMTPException")
          /\ UNCHANGED log
    /\ UNCHANGED <<xvars, cfg, history, files, today, cycle, locals, requests, writes,
                   emails>>

\* send_email, lines 104-112: one stage of the SMTP dialogue; a failure is
\* caught by send_email's own except, printed, and send_email returns
SmtpStage(at, ok_smtp, ok_pc, ok_log) ==
    /\ pc = at
    /\ \/ /\ smtp' = ok_smtp
          /\ pc' = ok_pc
          /\ log' = log \o ok_log
       \/ /\ smtp' = "failed at " \o at
          /\ pc' = "complete"
          /\ log' = Append(log, "Email sending failed")
    /\ UNCHANGED <<xvars, cfg, history, files, today, cycle, locals, requests, writes,
                   emails, error, propagated>>

\* line 106
SmtpConnect == SmtpStage("smtp_connect", "connected", "smtp_starttls", <<>>)

\* line 107
SmtpStartTls == SmtpStage("smtp_starttls", "tls", "smtp_login", <<>>)

\* line 108
SmtpLogin == SmtpStage("smtp_login", "logged in", "smtp_send", <<>>)

\* lines 109-110
SmtpSend == SmtpStage("smtp_send", "sent", "complete", <<"Email Sent">>)

\* line 162 and the return
Complete ==
    /\ pc = "complete"
    /\ log' = Append(log, "Cycle Complete")
    /\ pc' = "idle"
    /\ UNCHANGED <<xvars, cfg, history, files, today, cycle, locals, requests, writes,
                   emails, smtp, error, propagated>>

\* lines 164-165 and the return
Handler ==
    /\ pc = "handler"
    /\ log' = Append(log, "An error occurred")
    /\ pc' = "idle"
    /\ UNCHANGED <<xvars, cfg, history, files, today, cycle, locals, requests, writes,
                   emails, smtp, error, propagated>>

Next ==
    \/ StartCycle
    \/ Step1Send
    \/ Step1Parse
    \/ Step2Send
    \/ Step3Send
    \/ Save
    \/ Step4Send
    \/ Step4Parse
    \/ CallSendEmail
    \/ EmailCompose
    \/ SmtpConnect
    \/ SmtpStartTls
    \/ SmtpLogin
    \/ SmtpSend
    \/ Complete
    \/ Handler

Spec == Init /\ [][Next]_vars

\* the interpreter runs the next statement of a started cycle; every blocking
\* call returns or raises
FairSpec == Spec /\ WF_vars(Next)

(* ------------------------------------------------------------------ *)
(* _extract_json on its own: every text of the families below          *)
(* ------------------------------------------------------------------ *)
Alphabet == {"{", "}", "[", "]", QUOTE, ":", "1", "x", TICK, " "}

\* every text of at most MaxLen characters
FreeTexts == UNION {[1..n -> Alphabet] : n \in 0..MaxLen}

\* text before, a longer middle, and text after
Pres ==
    {<<>>, <<" ">>, <<"x">>, <<"[">>, <<TICK>>, <<TICK, TICK, TICK>>,
     <<TICK, TICK, TICK, "j", "s", "o", "n">>,
     <<TICK, TICK, TICK, "j", "s", "o", "n", NL>>, <<" ", TICK, TICK, TICK>>,
     <<" ", TICK, TICK, TICK, "j", "s", "o", "n", " ">>, <<"j", "s", "o", "n">>, <<QUOTE>>}

Cores ==
    {<<"{", "}">>, <<"{", QUOTE, "a", QUOTE, ":", "1", "}">>,
     <<"{", QUOTE, "a", QUOTE, ":", "{", "}", "}">>,
     <<"{", QUOTE, "a", QUOTE, ":", QUOTE, "}", QUOTE, "}">>,
     <<"{", QUOTE, "a", QUOTE, ":", QUOTE, "{", QUOTE, "}">>, <<"{", "1", "}">>, <<"{">>,
     <<"1">>, <<"{", QUOTE, "a", QUOTE, ":", "1", ",", QUOTE, "a", QUOTE, ":", "2", "}">>,
     <<"{", " ", QUOTE, "a", QUOTE, " ", ":", " ", "[", "1", ",", " ", "{", "}", "]", " ", "}">>}

Posts ==
    {<<>>, <<" ">>, <<"x">>, <<"]">>, <<TICK>>, <<TICK, TICK, TICK>>,
     <<NL, TICK, TICK, TICK>>, <<TICK, TICK, TICK, " ">>, <<"{", "}">>, <<"}">>, <<QUOTE>>}

ExtractInit ==
    /\ \/ pre = <<>> /\ core \in FreeTexts /\ post = <<>>
       \/ pre \in Pres /\ core \in Cores /\ post \in Posts
    /\ result = NoResult
    /\ cfg = [d \in 1..4 |-> "ok"]
    /\ CycleInit

\* a call _extract_json(text)
Extract ==
    /\ result = NoResult
    /\ result' = extract_json(text)
    /\ UNCHANGED <<pre, core, post, cvars>>

ExtractNext == Extract

ExtractSpec == ExtractInit /\ [][ExtractNext]_vars

(* ------------------------------------------------------------------ *)
(* Properties of _extract_json (checked under ExtractSpec)             *)
(* ------------------------------------------------------------------ *)
Extracted == result # NoResult

NoJsonFound == Raised("No JSON object found in response.")

UnableToParse == Raised("Unable to parse JSON from response text.")

IsObjectText(s) == json_loads(s).ok /\ json_loads(s).val.k = "obj"

\* the naive brace depth of s[i..j]
Depth(s, i, j) ==
    Cardinality({k \in i..j : s[k] = "{"}) - Cardinality({k \in i..j : s[k] = "}"})

\* where the naive depth counted from i first returns to zero (0: nowhere)
NaiveEnd(s, i) ==
    LET js == {j \in i..Len(s) : Depth(s, i, j) = 0}
    IN IF js = {} THEN 0 ELSE CHOOSE j \in js : \A k \in js : j <= k

LastClose(s) ==
    LET js == {j \in 1..Len(s) : s[j] = "}"}
    IN IF js = {} THEN 0 ELSE CHOOSE j \in js : \A k \in js : k <= j

\* the text from its first { to its last }
Region(s) == SubSeq(s, Find(s, "{"), LastClose(s))

\* s is one valid JSON object with text free of braces around it
OneRegion(s) ==
    /\ Find(s, "{") > 0
    /\ LastClose(s) > Find(s, "{")
    /\ \A k \in 1..Len(s) : s[k] = "}" => k > Find(s, "{")
    /\ IsObjectText(Region(s))

\* C4 as claimed: a text with no { always fails with "No JSON object found"
C4_NoBraceAlwaysFails ==
    Extracted /\ Find(text, "{") = 0 => result = NoJsonFound

\* C4, amended: a text with no { whose cleaned form is not valid JSON as a whole
\* fails with "No JSON object found" (never "Unable to parse"); one whose
\* cleaned form is valid JSON (a number, a string, an array) is returned parsed
C4_NoBraceFailsUnlessWholeParses ==
    Extracted /\ Find(text, "{") = 0 =>
        IF json_loads(Cleaned(text)).ok
        THEN result = Returned(json_loads(Cleaned(text)).val, "direct")
        ELSE result = NoJsonFound

C4_Witness ==
    /\ result = NoJsonFound
    /\ Len(text) = MaxLen
    /\ Find(text, "}") > 0

\* C5 as claimed: one valid JSON object with any text around it is returned
\* as that object's value
C5_RegionAlwaysReturned ==
    Extracted /\ OneRegion(text) => result.status = "ok" /\ result.val = json_loads(Region(text)).val

\* C5, amended: one valid JSON object, whose naive brace depth first returns to
\* zero at its last character, with brace-free text around it: when the cleaned
\* text is valid JSON as a whole the whole-text value is returned, otherwise the
\* object's value is returned by the brace scan
C5_RegionReturnedUnlessWholeParses ==
    Extracted /\ OneRegion(text) /\ NaiveEnd(text, Find(text, "{")) = LastClose(text) =>
        IF json_loads(Cleaned(text)).ok
        THEN result = Returned(json_loads(Cleaned(text)).val, "direct")
        ELSE result = Returned(json_loads(Region(text)).val, "scan")

C5_Witness ==
    /\ OneRegion(text)
    /\ pre = <<"x">> /\ post = <<"x">>
    /\ result = Returned(json_loads(core).val, "scan")
    /\ result.val.members # {}

\* the text is a bare object or an object inside a ``` fence, with or without
\* the json tag, with optional whitespace around each part
Wrapped ==
    /\ IsObjectText(core)
    /\ \/ Strip(pre) = <<>> /\ Strip(post) = <<>>
       \/ Strip(pre) \in {FENCE, FENCE \o JSONTAG} /\ Strip(post) = FENCE

\* C6: a valid JSON object, bare or fenced (with or without the json tag), is
\* returned as the direct parse of the object, by the whole-string parse
C6_FencedObjectParsedDirectly ==
    Extracted /\ Wrapped => result = Returned(json_loads(core).val, "direct")

C6_Witness ==
    /\ Extracted
    /\ Wrapped
    /\ Strip(pre) = FENCE \o JSONTAG
    /\ pre # Strip(pre)
    /\ result.val.members # {}

\* C7: when the cleaned text does not parse as a whole and holds a {, the one
\* candidate is the span from the first { to where the naive depth first
\* returns to zero; its value is returned if it parses, and anything else ends
\* in "Unable to parse JSON from response text"
C7_OnlyFirstCandidateTried ==
    LET c == Cleaned(text)
        i == Find(c, "{")
        j == NaiveEnd(c, i)
    IN Extracted /\ ~json_loads(c).ok /\ i > 0 =>
         IF j > 0 /\ json_loads(SubSeq(c, i, j)).ok
         THEN result = Returned(json_loads(SubSeq(c, i, j)).val, "scan")
         ELSE result = UnableToParse

\* the first candidate {1} does not parse and the object after it is not tried
C7_Witness ==
    /\ pre = <<>> /\ core = <<"{", "1", "}">> /\ post = <<"{", "}">>
    /\ result = UnableToParse

(* ------------------------------------------------------------------ *)
(* Properties of run_daily_research_cycle and send_email               *)
(* ------------------------------------------------------------------ *)
Last(q) == q[Len(q)]

IsPrefixOf(a, b) == Len(a) <= Len(b) /\ SubSeq(b, 1, Len(a)) = a

\* the directives of this cycle's chat requests, in the order sent
Dirs == [i \in 1..Len(requests) |-> requests[i].dir]

Requested(d) == \E i \in 1..Len(requests) : requests[i].dir = d

\* this cycle's chat turn for directive d got its reply
TurnOk(d) == \E i \in 1..Len(history) : history[i] = Msg("model", cycle, d)

\* the directive a step of the cycle belongs to
StepDir(p) ==
    CASE p \in {"step1_send", "step1_parse"} -> 1
      [] p = "step2_send" -> 2
      [] p \in {"step3_send", "save"} -> 3
      [] OTHER -> 4

\* C1: the chat requests go out in the order 1, 2, 3, 4, each only after all
\* before it succeeded (reply 1 extracted to an object with title and abstract,
\* the article saved before request 4), send_email is called only after reply 4
\* was extracted, and after a failure at a step no later request is sent and
\* send_email is not called
C1_StepsGatedInOrder ==
    /\ IsPrefixOf(Dirs, <<1, 2, 3, 4>>)
    /\ Requested(2) =>
         /\ TurnOk(1)
         /\ topic_data.k = "obj"
         /\ \E m \in topic_data.members : m[1] = k_title
         /\ \E m \in topic_data.members : m[1] = k_abstract
    /\ Requested(3) => TurnOk(2)
    /\ Requested(4) => TurnOk(3) /\ filepath # <<>>
    /\ emails # <<>> => TurnOk(4) /\ email_data # NoVal
    /\ error.at \in {"step1_send", "step1_parse", "step2_send", "step3_send", "save",
                     "step4_send", "step4_parse", "call_send_email"} =>
         /\ \A i \in 1..Len(requests) : requests[i].dir <= StepDir(error.at)
         /\ emails = <<>>

\* a topic reply with no title: the cycle ended with directive 1 alone requested
C1_Witness ==
    /\ pc = "idle"
    /\ error = [kind |-> "KeyError", at |-> "step1_parse"]
    /\ reply_text = TopicNoTitle
    /\ Dirs = <<1>>

C2_Caught ==
    /\ ~propagated
    /\ pc = "idle" /\ cycle > 0 => Last(log) \in {"Cycle Complete", "An error occurred"}
    /\ error # NoError =>
         \/ pc = "handler"
         \/ pc = "idle" /\ Last(log) = "An error occurred"

\* C2: whatever fails at whatever step, the exception is caught and logged by
\* the cycle's handler, none leaves run_daily_research_cycle, and a cycle that
\* was started returns
C2_CycleNeverRaises == [](C2_Caught) /\ (pc # "idle" ~> pc = "idle")

\* a TypeError raised in send_email before its own try block was caught
C2_Witness ==
    /\ pc = "idle"
    /\ error = [kind |-> "TypeError", at |-> "email_compose"]
    /\ Last(log) = "An error occurred"

SmtpFailed == smtp \notin {"none", "connected", "tls", "logged in", "sent"}

\* C3: when a stage of the SMTP dialogue fails, send_email prints the failure
\* and returns: the cycle goes on to "Cycle Complete" and its handler is not
\* entered
C3_DeliveryFailureContained ==
    SmtpFailed =>
        /\ pc \in {"complete", "idle"}
        /\ error = NoError
        /\ ~propagated
        /\ \E i \in 1..Len(log) : log[i] = "Email sending failed"
        /\ \A i \in 1..Len(log) : log[i] # "An error occurred"
        /\ pc = "idle" => Last(log) = "Cycle Complete"

C3_Witness ==
    /\ smtp = "failed at smtp_login"
    /\ pc = "idle"
    /\ Last(log) = "Cycle Complete"

\* C8: the article file is opened for writing at most once in a cycle, after
\* turns 1 to 3 succeeded and before request 4 is sent; once saved it holds the
\* whole reply to directive 3 (request 4 carries only its first 4000
\* characters) for the rest of the cycle, whatever fails later
C8_ArticleWrittenOnceAndKept ==
    /\ writes <= 1
    /\ writes = 1 => TurnOk(1) /\ TurnOk(2) /\ TurnOk(3)
    /\ Requested(4) =>
         /\ writes = 1 /\ filepath # <<>>
         /\ requests[4].size = Min(article_text, SnippetLen)
    /\ filepath # <<>> =>
         /\ filepath \in DOMAIN files
         /\ files[filepath] = article_text

\* an article longer than the snippet stayed whole after reply 4 failed to parse
C8_Witness ==
    /\ pc = "idle"
    /\ error = [kind |-> "ValueError", at |-> "step4_parse"]
    /\ filepath \in DOMAIN files
    /\ files[filepath] = SnippetLen + 1
    /\ requests[4].size = SnippetLen

\* the value of key in the extracted reply to directive 4, or default
EmailField(key, default) ==
    LET vs == {m[2] : m \in {x \in email_data.members : x[1] = key}}
    IN IF vs = {} THEN default ELSE CHOOSE v \in vs : TRUE

ExpectedEmail ==
    [subject |-> EmailField(k_email_subject, StrVal(DefaultSubjectPrefix \o title.s)),
     body |-> EmailField(k_email_body, abstract)]

\* the reply to directive 4 was extracted and line 159 has run
Reply4Handled == email_data # NoVal /\ pc # "call_send_email"

\* C9 as claimed: whenever the reply to directive 4 is extracted, send_email is
\* called exactly once, each argument from the reply or else its default
C9_EmailSentForAnyExtractedReply ==
    Reply4Handled => emails = <<ExpectedEmail>>

\* C9, amended: send_email is called at most once in a cycle, and whenever the
\* reply to directive 4 is extracted as a JSON object it is called exactly
\* once, each argument from the reply or else its default, independently
C9_EmailSentForExtractedObject ==
    /\ Len(emails) <= 1
    /\ Reply4Handled /\ email_data.k = "obj" => emails = <<ExpectedEmail>>
    /\ Reply4Handled /\ email_data.k # "obj" => emails = <<>>

\* a reply {} with neither key: the default subject and the abstract were sent
C9_Witness ==
    /\ email_data = ObjVal({})
    /\ title = StrVal(<<"T">>)
    /\ emails = <<[subject |-> StrVal(DefaultSubjectPrefix \o <<"T">>),
                   body |-> StrVal(<<"A">>)]>>
    /\ smtp = "sent"

BeforeThisCycle(m) == m.cycle < cycle

C10_SharedSession ==
    /\ history[1] = system_instruction
    /\ \A i \in 1..Len(requests) :
         requests[i].dir = 1 =>
            /\ requests[i].on = SelectSeq(history, BeforeThisCycle)
            /\ cycle = 1 => requests[i].on = <<system_instruction>>

====
